---- MODULE Spec2Model ----
(***************************************************************************)
(* Request / authentication / retry core of the Box Node SDK.              *)
(*                                                                         *)
(*   Spec, FairSpec   one APIRequest instance (src/src/api-request.ts):    *)
(*                    execute, _handleResponse, _retry, _finish and the    *)
(*                    streaming branch of execute.                         *)
(*   SpecToken        TokenManager.getTokens and isAccessTokenValid        *)
(*                    (src/unnamed/part_001).                              *)
(*   SpecSession      the getAccessToken state machine of the refreshing   *)
(*                    sessions, whose code is not part of src/ (only its   *)
(*                    declarations are) and is modelled from spec.md 4.4.  *)
(*   SpecStore        the same sessions with a token store:                *)
(*                    handleExpiredTokensError.                            *)
(*   SpecJWT,         TokenManager.getTokensJWTGrant and retryJWTGrant     *)
(*   FairSpecJWT      (src/unnamed/part_001), each request of the grant    *)
(*                    run through the APIRequest above.                    *)
(*   SpecConfig       Config: constructor, extend and the freeze           *)
(*                    (src/unnamed/part_010).                              *)
(***************************************************************************)
EXTENDS Integers, Sequences, FiniteSets, TLC

VARIABLES
    \* ---- APIRequest instance -------------------------------------------
    config,            \* this.config (numMaxRetries, retryIntervalMS, retryStrategy, request)
    isRetryable,       \* this.isRetryable
    callback,          \* this._callback is set
    pc,                \* where the instance is: constructed, inflight, waiting, ...
    numRetries,        \* this.numRetries (undefined is read as 0)
    attempts,          \* HTTP requests issued through request(...)
    reqHeaders,        \* headers of this.request, the request object of the last attempt
    response,          \* the response of the last attempt (err.response)
    error,             \* the error being handled / handed to _finish
    retryTimeout,      \* delay given to setTimeout
    retryOptions,      \* argument and result of the last retryStrategy call
    cbCount,           \* how often the callback ran
    cbErr,             \* the error the callback received
    cbResponse,        \* the response the callback received
    busCount,          \* 'response' events emitted on the event bus
    busLast,           \* the last emitted (error, response)
    asyncRequestTimer, \* module-level timer of api-request.ts
    startedAt,         \* clock at the first execute() of this request
    \* ---- the clock ------------------------------------------------------
    now,               \* Date.now() / process.hrtime(), in ms
    \* ---- TokenManager ---------------------------------------------------
    tmPc,              \* idle, requested, resolved, rejected
    tmGrant,           \* formParams.grant_type of the grant in progress
    tmCalls,           \* getTokens calls made
    tmSentAt,          \* clock when getTokens posted the request
    tmBody,            \* response handed to the then() handler of getTokens
    tmResult,          \* what getTokens settled with
    tmPrev,            \* the previous successful parse: body, time, TokenInfo
    tokenInfo,         \* a TokenInfo handed to isAccessTokenValid
    validCheck,        \* last isAccessTokenValid call: arguments, clock, result
    \* ---- Session --------------------------------------------------------
    sConfig,           \* the session's config: expiredBufferMS, staleBufferMS
    sTokenInfo,        \* session._tokenInfo
    sRefreshPromise,   \* session._refreshPromise: the grant it waits on, 0 for null
    sInFlight,         \* grant calls the token manager has not settled yet
    sGrantCalls,       \* grant calls issued to the token manager
    sCaller,           \* per caller: idle, waiting, resolved, rejected
    sCallerToken,      \* per caller: the access token it was resolved with
    sCallerGrant,      \* per caller: the grant its promise is or was chained to
    sTokenGrant,       \* the grant call that produced session._tokenInfo, 0 for none
    sRevoke,           \* the last revokeTokens call: progress, grant revoked, calls since
    sStore,            \* session._tokenStore: absent, filled, cleared
    sHandled,          \* handleExpiredTokensError: its progress and what it resolved with
    \* ---- TokenManager: JWT grant ----------------------------------------
    jwtPc,             \* idle, sending, waiting (Promise.delay), resolved, rejected
    jwtNumRetries,     \* numRetries handed on from one retryJWTGrant to the next
    jwtRequests,       \* requests issued to the token endpoint by this grant
    jwtClaims,         \* claims.exp and jwtOptions.jwtid of the signed assertion
    jwtIds,            \* JWT IDs of the assertions sent so far
    jwtError,          \* the error handed to retryJWTGrant
    jwtThrown,         \* the error the grant's promise rejected with
    jwtDelay,          \* the retry delay chosen last: its source, value and use
    jwtTimer,          \* module-level asyncRequestTimer of the token manager
    \* ---- Config ---------------------------------------------------------
    cConfig,           \* a Config c
    cExtended,         \* the Config returned by c.extend(o)
    cOverrides,        \* the overrides o of that call
    cBuffer,           \* the bytes of the Buffers the params referred to
    cWrite             \* the last write attempted on a Config, and their number

execVars == <<config, isRetryable, callback, pc, numRetries, attempts, reqHeaders,
              response, error, retryTimeout, retryOptions, cbCount, cbErr,
              cbResponse, busCount, busLast, asyncRequestTimer, startedAt>>
tokenVars == <<tmPc, tmGrant, tmCalls, tmSentAt, tmBody, tmResult, tmPrev, tokenInfo,
               validCheck>>
sessionVars == <<sConfig, sTokenInfo, sRefreshPromise, sInFlight, sGrantCalls,
                 sCaller, sCallerToken, sCallerGrant, sTokenGrant, sRevoke, sStore,
                 sHandled>>
jwtVars == <<jwtPc, jwtNumRetries, jwtRequests, jwtClaims, jwtIds, jwtError, jwtThrown,
             jwtDelay, jwtTimer>>
configVars == <<cConfig, cExtended, cOverrides, cBuffer, cWrite>>
vars == <<execVars, now, tokenVars, sessionVars, jwtVars, configVars>>

-----------------------------------------------------------------------------
(* Bounds of the model *)

MaxNumMaxRetries == 2
MaxNow == 1
\* getTokens calls made on one TokenManager
MaxGrantCalls == 2
\* callers of getAccessToken on one session
NumCallers == 2
\* grant calls one session issues
MaxRefreshes == 2
\* writes attempted on the fields and Buffers of a Config
MaxWrites == 2

-----------------------------------------------------------------------------
(* Constants of api-request.ts *)

REQUEST_TIMEOUT == 408
TOO_MANY_REQUESTS == 429
INSUFFICIENT_STORAGE == 507
HTTP_STATUS_CODE_SERVER_ERROR_BLOCK_RANGE == <<500, 599>>
retryableStatusCodes == {REQUEST_TIMEOUT, TOO_MANY_REQUESTS}
JWT_GRANT == "urn:ietf:params:oauth:grant-type:jwt-bearer"

(* Values the environment may produce *)

Statuses == {200, 408, 429, 499, 500, 507, 599, 600}
RetryAfterSeconds == {0, 5}
RetryIntervals == {0, 2}
StrategyNumbers == {0, 7}

\* config.request as the SDK shapes it: an API call carries the Authorization
\* header and possibly the shared-link header and a multipart body; a grant
\* request (TokenManager.getTokens) carries a form with grant_type and no
\* credentials in its headers.
RequestShapes ==
    {[formData |-> f, grant_type |-> "none", Authorization |-> h[1], BoxApi |-> h[2]] :
        f \in BOOLEAN,
        h \in {<<"secret", "absent">>, <<"secret", "secret">>}}
    \cup {[formData |-> FALSE, grant_type |-> g, Authorization |-> "absent",
           BoxApi |-> "absent"] : g \in {"refresh_token", JWT_GRANT}}

NoResponse == [present |-> FALSE, statusCode |-> 0, hasRetryAfter |-> FALSE, retryAfter |-> 0]
\* the servers send retry-after with the statuses that ask for a retry
RetryAfterStatuses == {408, 429, 500, 599}
Responses ==
    {[present |-> TRUE, statusCode |-> s, hasRetryAfter |-> FALSE, retryAfter |-> 0] : s \in Statuses}
    \cup {[present |-> TRUE, statusCode |-> s, hasRetryAfter |-> TRUE, retryAfter |-> r] :
            s \in RetryAfterStatuses, r \in RetryAfterSeconds}

NoHeaders == [Authorization |-> "absent", BoxApi |-> "absent"]
\* an error with the properties _handleResponse and _retry may attach to it;
\* hasRequest, hasResponse: err.request, err.response and err.statusCode are set
NoError == [present |-> FALSE, kind |-> "none", hasResponse |-> FALSE, statusCode |-> 0,
            maxRetriesExceeded |-> FALSE, hasRequest |-> FALSE, request |-> NoHeaders]
\* the error the request library reports when no response arrived
TransportError == [present |-> TRUE, kind |-> "transport", hasResponse |-> FALSE,
                   statusCode |-> 0, maxRetriesExceeded |-> FALSE, hasRequest |-> FALSE,
                   request |-> NoHeaders]
\* an Error object returned by a retry strategy
StrategyError == [present |-> TRUE, kind |-> "strategy", hasResponse |-> FALSE,
                  statusCode |-> 0, maxRetriesExceeded |-> FALSE, hasRequest |-> FALSE,
                  request |-> NoHeaders]

\* what a call of config.retryStrategy may return
StrategyResults ==
    {[type |-> "number", n |-> n] : n \in StrategyNumbers}
    \cup {[type |-> "error", n |-> 0], [type |-> "other", n |-> 0]}
NoStrategyResult == [type |-> "unused", n |-> 0]

\* the argument of the last retryStrategy call, with what the call returned
NoRetryOptions == [called |-> FALSE, numRetryAttempts |-> 0, totalElapsedTimeMS |-> 0,
                   returned |-> NoStrategyResult]

\* a retry strategy is configured next to a positive retry interval
Configs ==
    {c \in [numMaxRetries : 0..MaxNumMaxRetries,
            retryIntervalMS : RetryIntervals,
            retryStrategy : BOOLEAN,
            request : RequestShapes] :
        c.retryStrategy => c.retryIntervalMS > 0}

-----------------------------------------------------------------------------
(* Pure functions of api-request.ts *)

isTemporaryErrorNo507Exception(resp) ==
    \/ /\ resp.statusCode >= HTTP_STATUS_CODE_SERVER_ERROR_BLOCK_RANGE[1]
       /\ resp.statusCode <= HTTP_STATUS_CODE_SERVER_ERROR_BLOCK_RANGE[2]
    \/ resp.statusCode \in retryableStatusCodes

isTemporaryError(resp) ==
    \/ /\ resp.statusCode # INSUFFICIENT_STORAGE
       /\ resp.statusCode >= HTTP_STATUS_CODE_SERVER_ERROR_BLOCK_RANGE[1]
       /\ resp.statusCode <= HTTP_STATUS_CODE_SERVER_ERROR_BLOCK_RANGE[2]
    \/ resp.statusCode \in retryableStatusCodes

isClientErrorResponseBelow499(resp) == 400 <= resp.statusCode /\ resp.statusCode < 499

isClientErrorResponse(resp) == 400 <= resp.statusCode /\ resp.statusCode < 500

createErrorForResponse(resp) ==
    [present |-> TRUE, kind |-> "response", hasResponse |-> FALSE, statusCode |-> 0,
     maxRetriesExceeded |-> FALSE, hasRequest |-> FALSE, request |-> NoHeaders]

isRequestRetryableAlways(options) == TRUE

isRequestRetryable(options) == ~options.formData

cleanSensitiveHeaders(h) ==
    [Authorization |-> IF h.Authorization # "absent" THEN "removed" ELSE h.Authorization,
     BoxApi |-> IF h.BoxApi # "absent" THEN "removed" ELSE h.BoxApi]

isJWTAnyGrant(cfg) == cfg.request.grant_type # "none"

isJWTNever(cfg) == FALSE

\* grant_type check of _handleResponse
isJWT(cfg) == cfg.request.grant_type = JWT_GRANT

RECURSIVE Pow2(_)
Pow2(n) == IF n <= 0 THEN 1 ELSE 2 * Pow2(n - 1)

\* util/exponential-backoff: base * 2^(numRetries-1) + jitter, jitter within the base interval
getRetryTimeout(n, baseInterval) ==
    {baseInterval * Pow2(n - 1) + j : j \in {0, baseInterval}}

\* seconds of a retry-after header to the ms given to setTimeout
retryAfterNotConverted(seconds) == seconds

retryAfterMS(seconds) == seconds * 1000

\* _retry without a retry strategy: the retry-after header, else the backoff
retryTimeoutWithoutStrategy(err, resp, backoff) ==
    IF err.hasResponse /\ resp.hasRetryAfter
    THEN retryAfterMS(resp.retryAfter)
    ELSE backoff

strategyErrorIgnored(err, strat) == err

\* the error _retry finishes with when the strategy returned no number: the
\* strategy's Error if it returned one, the current error otherwise
strategyError(err, strat) == IF strat.type = "error" THEN StrategyError ELSE err

retriesRemainOffByOne(n, cfg) == n + 1 < cfg.numMaxRetries

retriesRemainInclusive(n, cfg) == n <= cfg.numMaxRetries

\* the comparison of _retry that decides whether retries remain
retriesRemain(n, cfg) == n < cfg.numMaxRetries

\* _retry(err): what it does with the error, for each value the strategy and the
\* backoff may produce.  next = "timer": setTimeout(execute, retryTimeout);
\* next = "finish": _finish(err).
Retry(err, resp, n, cfg, strat, backoff) ==
    IF retriesRemain(n, cfg)
    THEN IF cfg.retryStrategy
         THEN IF strat.type # "number"
              THEN [next |-> "finish", numRetries |-> n + 1, retryTimeout |-> 0,
                    err |-> strategyError(err, strat),
                    strategyCalled |-> TRUE]
              ELSE [next |-> "timer", numRetries |-> n + 1, retryTimeout |-> strat.n,
                    err |-> err, strategyCalled |-> TRUE]
         ELSE [next |-> "timer", numRetries |-> n + 1,
               retryTimeout |-> retryTimeoutWithoutStrategy(err, resp, backoff),
               err |-> err, strategyCalled |-> FALSE]
    ELSE [next |-> "finish", numRetries |-> n, retryTimeout |-> 0,
          err |-> [err EXCEPT !.maxRetriesExceeded = TRUE], strategyCalled |-> FALSE]

\* this._callback = callback || this._callback
keepOnlyNewCallback(cbArg, cur) == cbArg

nextCallback(cbArg, cur) == cbArg \/ cur

requestHeaders(cfg) ==
    [Authorization |-> cfg.request.Authorization, BoxApi |-> cfg.request.BoxApi]

-----------------------------------------------------------------------------
(* APIRequest: construction *)

DefaultConfig ==
    [numMaxRetries |-> 0, retryIntervalMS |-> 0, retryStrategy |-> FALSE,
     request |-> [formData |-> FALSE, grant_type |-> "none",
                  Authorization |-> "absent", BoxApi |-> "absent"]]

\* timer: the module's asyncRequestTimer when the instance is constructed
ConstructedIn(cfg, timer) ==
    /\ config = cfg
    /\ isRetryable = isRequestRetryable(cfg.request)
    /\ callback = FALSE
    /\ pc = "constructed"
    /\ numRetries = 0
    /\ attempts = 0
    /\ reqHeaders = NoHeaders
    /\ response = NoResponse
    /\ error = NoError
    /\ retryTimeout = 0
    /\ retryOptions = NoRetryOptions
    /\ cbCount = 0
    /\ cbErr = NoError
    /\ cbResponse = NoResponse
    /\ busCount = 0
    /\ busLast = [err |-> NoError, response |-> NoResponse]
    /\ asyncRequestTimer = timer
    /\ startedAt = 0

\* the first APIRequest of the process: no request has set the timer
Constructed(cfg) == ConstructedIn(cfg, [set |-> FALSE, at |-> 0])

\* the timer is unset, or an earlier request of the process set it
ProcessTimers == {[set |-> FALSE, at |-> 0], [set |-> TRUE, at |-> 0]}

InitExec == \E cfg \in Configs : \E timer \in ProcessTimers : ConstructedIn(cfg, timer)

-----------------------------------------------------------------------------
(* APIRequest: operations *)

\* execute(callback?): the buffered branch issues the request and leaves
\* _handleResponse as its callback; the other branch starts a stream.
Execute(cbArg) ==
    /\ callback' = nextCallback(cbArg, callback)
    /\ attempts' = attempts + 1
    /\ reqHeaders' = requestHeaders(config)
    /\ IF callback'
       THEN /\ asyncRequestTimer' = IF asyncRequestTimer.set THEN asyncRequestTimer
                                     ELSE [set |-> TRUE, at |-> now]
            /\ pc' = "inflight"
       ELSE /\ asyncRequestTimer' = asyncRequestTimer
            /\ pc' = "streaming"
    /\ retryTimeout' = 0
    /\ startedAt' = IF attempts = 0 THEN now ELSE startedAt
    /\ UNCHANGED <<config, isRetryable, numRetries, response, error, retryOptions,
                   cbCount, cbErr, cbResponse, busCount, busLast>>
    /\ UNCHANGED now

\* APIRequestManager.makeRequest / makeStreamingRequest call execute once
Start ==
    /\ pc = "constructed"
    /\ \E cbArg \in BOOLEAN : Execute(cbArg)
    /\ UNCHANGED <<tokenVars, sessionVars, jwtVars, configVars>>

\* the timer set by _retry runs execute with no argument
TimerFires ==
    /\ pc = "waiting"
    /\ Execute(FALSE)
    /\ UNCHANGED <<tokenVars, sessionVars, jwtVars, configVars>>

\* _handleResponse(err, response) with all it calls: _retry or _finish.
\* resp = NoResponse stands for a transport error (err set, no response).
HandleResponse(resp, strat, backoff) ==
    /\ pc = "inflight"
    /\ LET cleaned == cleanSensitiveHeaders(reqHeaders)
           err0 == IF ~resp.present THEN TransportError
                   ELSE IF isTemporaryError(resp) THEN createErrorForResponse(resp)
                   ELSE NoError
           err1 == [err0 EXCEPT !.hasRequest = TRUE,
                                !.request = cleaned,
                                !.hasResponse = resp.present,
                                !.statusCode = IF resp.present THEN resp.statusCode ELSE 0]
           r == IF isRetryable /\ ~isJWT(config)
                THEN Retry(err1, resp, numRetries, config, strat, backoff)
                ELSE [next |-> "finish", numRetries |-> numRetries, retryTimeout |-> 0,
                      err |-> err1, strategyCalled |-> FALSE]
       IN  /\ reqHeaders' = cleaned
           /\ response' = resp
           /\ busCount' = busCount + 1
           /\ IF err0.present
              THEN /\ busLast' = [err |-> err1, response |-> NoResponse]
                   /\ numRetries' = r.numRetries
                   /\ error' = r.err
                   /\ retryTimeout' = r.retryTimeout
                   /\ pc' = IF r.next = "timer" THEN "waiting" ELSE "finishing"
                   /\ retryOptions' =
                        IF r.strategyCalled
                        THEN [called |-> TRUE, numRetryAttempts |-> r.numRetries,
                              totalElapsedTimeMS |-> now - asyncRequestTimer.at,
                              returned |-> strat]
                        ELSE retryOptions
              ELSE /\ busLast' = [err |-> NoError, response |-> resp]
                   /\ error' = NoError
                   /\ pc' = "finishing"
                   /\ UNCHANGED <<numRetries, retryTimeout, retryOptions>>
    /\ UNCHANGED <<config, isRetryable, callback, attempts, cbCount, cbErr, cbResponse,
                   asyncRequestTimer, startedAt>>
    /\ UNCHANGED <<now, tokenVars, sessionVars, jwtVars, configVars>>

\* the HTTP layer answers the request in flight
RequestCompletes ==
    \E resp \in Responses \cup {NoResponse} :
        \E strat \in IF config.retryStrategy THEN StrategyResults ELSE {NoStrategyResult} :
            \E backoff \in IF config.retryStrategy THEN {0}
                            ELSE getRetryTimeout(numRetries + 1, config.retryIntervalMS) :
                HandleResponse(resp, strat, backoff)

\* the process.nextTick callback of _finish
FinishTick ==
    /\ pc = "finishing"
    /\ pc' = "done"
    /\ cbCount' = cbCount + 1
    /\ cbErr' = error
    /\ cbResponse' = IF error.present THEN NoResponse ELSE response
    /\ UNCHANGED <<config, isRetryable, callback, numRetries, attempts, reqHeaders,
                   response, error, retryTimeout, retryOptions, busCount, busLast,
                   asyncRequestTimer, startedAt>>
    /\ UNCHANGED <<now, tokenVars, sessionVars, jwtVars, configVars>>

\* stream.on('error'): the error is emitted as the stream raised it, nothing is
\* attached to it
StreamError ==
    /\ pc = "streaming"
    /\ pc' = "streamed"
    /\ busCount' = busCount + 1
    /\ busLast' = [err |-> TransportError, response |-> NoResponse]
    /\ UNCHANGED <<config, isRetryable, callback, numRetries, attempts, reqHeaders,
                   response, error, retryTimeout, retryOptions, cbCount, cbErr,
                   cbResponse, asyncRequestTimer, startedAt>>
    /\ UNCHANGED <<now, tokenVars, sessionVars, jwtVars, configVars>>

\* stream.on('response')
StreamResponse(resp) ==
    /\ pc = "streaming"
    /\ pc' = "streamed"
    /\ response' = resp
    /\ busCount' = busCount + 1
    /\ busLast' = IF isClientErrorResponse(resp)
                  THEN [err |-> createErrorForResponse(resp), response |-> NoResponse]
                  ELSE [err |-> NoError, response |-> resp]
    /\ UNCHANGED <<config, isRetryable, callback, numRetries, attempts, reqHeaders,
                   error, retryTimeout, retryOptions, cbCount, cbErr, cbResponse,
                   asyncRequestTimer, startedAt>>
    /\ UNCHANGED <<now, tokenVars, sessionVars, jwtVars, configVars>>

StreamResponds == \E resp \in Responses : StreamResponse(resp)

\* time passes while the instance waits: for its caller, the network or a timer
Tick ==
    /\ now < MaxNow
    /\ pc \in {"constructed", "inflight", "waiting", "streaming"}
    /\ now' = now + 1
    /\ UNCHANGED <<execVars, tokenVars, sessionVars, jwtVars, configVars>>

-----------------------------------------------------------------------------
(* TokenManager: values *)

grantTypes ==
    [AUTHORIZATION_CODE |-> "authorization_code",
     REFRESH_TOKEN |-> "refresh_token",
     CLIENT_CREDENTIALS |-> "client_credentials",
     JWT |-> JWT_GRANT,
     TOKEN_EXCHANGE |-> "urn:ietf:params:oauth:grant-type:token-exchange"]

GrantTypeValues ==
    {grantTypes.AUTHORIZATION_CODE, grantTypes.REFRESH_TOKEN,
     grantTypes.CLIENT_CREDENTIALS, grantTypes.JWT}

\* a JSON value by its typeof: a string field keeps its text, a number its value
Undefined == [type |-> "undefined", str |-> "", n |-> 0]
Str(text) == [type |-> "string", str |-> text, n |-> 0]
Num(k) == [type |-> "number", str |-> "", n |-> k]

AccessTokenValues == {Undefined, Str(""), Str("a1"), Num(7)}
RefreshTokenValues == {Undefined, Str(""), Str("r1")}
ExpiresInValues == {Undefined, Num(1), Num(3600)}
ErrorValues == {Undefined, Str("invalid_grant")}

EmptyBody == [access_token |-> Undefined, refresh_token |-> Undefined,
              expires_in |-> Undefined, error |-> Undefined]

\* responses with which makeRequest resolves: a JSON object, or a Buffer when
\* the body could not be decoded
TokenResponses ==
    {[statusCode |-> sc, isBuffer |-> FALSE,
      body |-> [access_token |-> a, refresh_token |-> r, expires_in |-> e, error |-> err]] :
        sc \in {200, 400}, a \in AccessTokenValues, r \in RefreshTokenValues,
        e \in ExpiresInValues, err \in ErrorValues}
    \cup {[statusCode |-> sc, isBuffer |-> TRUE, body |-> EmptyBody] : sc \in {200, 400}}

NoTokenResponse == [statusCode |-> 0, isBuffer |-> FALSE, body |-> EmptyBody]

NoTokenInfo == [accessToken |-> Undefined, refreshToken |-> Undefined,
                accessTokenTTLMS |-> Undefined, acquiredAtMS |-> Undefined]

NoResult == [kind |-> "none", info |-> NoTokenInfo, at |-> 0]
NoPrev == [present |-> FALSE, body |-> EmptyBody, at |-> 0, info |-> NoTokenInfo]
NoValidCheck == [called |-> FALSE, bufferMS |-> Undefined, at |-> 0, result |-> FALSE]

\* instants the clock passes through while tokens are granted and checked
TokenTimePoints == {0, 1000, 3600001}
ValidTimePoints == {0, 1, 999, 1000, 1001, 2000, 3600000, 3600001, 3601000}

\* TokenInfo objects a caller may hand to isAccessTokenValid
CheckedTokenInfos ==
    {[accessToken |-> Str("a1"), refreshToken |-> Undefined,
      accessTokenTTLMS |-> ttl, acquiredAtMS |-> acq] :
        ttl \in {Undefined, Num(0), Num(1000), Num(3600000)},
        acq \in {Undefined, Num(0), Num(1000)}}
BufferValues == {Undefined, Num(0), Num(1), Num(1000)}

-----------------------------------------------------------------------------
(* TokenManager: pure functions *)

RECURSIVE digitsOf(_)
\* String(n) of a non-negative integer, as its decimal digits
digitsOf(k) == IF k < 10 THEN <<k>> ELSE Append(digitsOf(k \div 10), k % 10)

RECURSIVE valueOf(_)
valueOf(ds) == IF ds = <<>> THEN 0
               ELSE 10 * valueOf(SubSeq(ds, 1, Len(ds) - 1)) + ds[Len(ds)]

\* parseInt(x, 10) of a number: the number is converted to its decimal string
\* and the leading integer of that string is read back
parseInt(k) == IF k < 0 THEN 0 - valueOf(digitsOf(0 - k)) ELSE valueOf(digitsOf(k))

getTokensFromGrantResponseTTLInSeconds(grantResponseBody, dateNow) ==
    [accessToken |-> grantResponseBody.access_token,
     refreshToken |-> grantResponseBody.refresh_token,
     accessTokenTTLMS |-> Num(parseInt(grantResponseBody.expires_in.n)),
     acquiredAtMS |-> Num(dateNow)]

\* dateNow is the Date.now() read in the function
getTokensFromGrantResponse(grantResponseBody, dateNow) ==
    [accessToken |-> grantResponseBody.access_token,
     refreshToken |-> grantResponseBody.refresh_token,
     accessTokenTTLMS |-> Num(parseInt(grantResponseBody.expires_in.n) * 1000),
     acquiredAtMS |-> Num(dateNow)]

isValidCodeOrToken(codeOrToken) ==
    codeOrToken.type = "string" /\ codeOrToken.str # ""

isValidTokenResponseNoRefreshCheck(grantType, responseBody) ==
    /\ isValidCodeOrToken(responseBody.access_token)
    /\ responseBody.expires_in.type = "number"

isValidTokenResponse(grantType, responseBody) ==
    /\ isValidCodeOrToken(responseBody.access_token)
    /\ responseBody.expires_in.type = "number"
    /\ (grantType = "authorization_code" \/ grantType = "refresh_token")
          => isValidCodeOrToken(responseBody.refresh_token)

isAccessTokenValidInclusive(ti, bufferMS, dateNow) ==
    IF ti.acquiredAtMS.type = "undefined" \/ ti.accessTokenTTLMS.type = "undefined"
    THEN FALSE
    ELSE LET buf == IF bufferMS.type = "number" /\ bufferMS.n # 0 THEN bufferMS.n ELSE 0
             expireTime == ti.acquiredAtMS.n + ti.accessTokenTTLMS.n - buf
         IN  expireTime >= dateNow

\* TokenManager.isAccessTokenValid; bufferMS || 0 reads an omitted buffer as 0
isAccessTokenValid(ti, bufferMS, dateNow) ==
    IF ti.acquiredAtMS.type = "undefined" \/ ti.accessTokenTTLMS.type = "undefined"
    THEN FALSE
    ELSE LET buf == IF bufferMS.type = "number" /\ bufferMS.n # 0 THEN bufferMS.n ELSE 0
             expireTime == ti.acquiredAtMS.n + ti.accessTokenTTLMS.n - buf
         IN  expireTime > dateNow

\* the then() handler of getTokens
getTokensThen(grantType, resp, dateNow) ==
    IF ~resp.isBuffer /\ resp.body.error = Str("invalid_grant")
    THEN [kind |-> "authError", info |-> NoTokenInfo, at |-> dateNow]
    ELSE IF resp.statusCode # 200 \/ resp.isBuffer
    THEN [kind |-> "unexpectedResponseError", info |-> NoTokenInfo, at |-> dateNow]
    ELSE IF ~isValidTokenResponse(grantType, resp.body)
    THEN [kind |-> "malformedTokenResponseError", info |-> NoTokenInfo, at |-> dateNow]
    ELSE [kind |-> "tokenInfo", at |-> dateNow,
          info |-> getTokensFromGrantResponse(resp.body, dateNow)]

-----------------------------------------------------------------------------
(* TokenManager and sessions at rest *)

TokenIdle ==
    /\ tmPc = "idle"
    /\ tmGrant = "none"
    /\ tmCalls = 0
    /\ tmSentAt = 0
    /\ tmBody = NoTokenResponse
    /\ tmResult = NoResult
    /\ tmPrev = NoPrev
    /\ tokenInfo = NoTokenInfo
    /\ validCheck = NoValidCheck

\* callers of one session
Callers == 1 .. NumCallers

\* defaults of the config; 600000 is the stale buffer the sessions document
\* ("defaults to 10 minutes before the token is set to expire")
SessionConfigs ==
    [expiredBufferMS : {Num(180000)}, staleBufferMS : {Num(0), Num(600000)}]

NoRevoke == [state |-> "none", grant |-> 0, served |-> FALSE]
NoHandled == [state |-> "idle", result |-> "none"]

SessionIdle ==
    /\ sTokenGrant = 0
    /\ sRevoke = NoRevoke
    /\ sStore = "absent"
    /\ sHandled = NoHandled
    /\ sConfig = [expiredBufferMS |-> Num(180000), staleBufferMS |-> Num(0)]
    /\ sTokenInfo = NoTokenInfo
    /\ sRefreshPromise = 0
    /\ sInFlight = {}
    /\ sGrantCalls = 0
    /\ sCaller = [c \in Callers |-> "idle"]
    /\ sCallerToken = [c \in Callers |-> Undefined]
    /\ sCallerGrant = [c \in Callers |-> 0]

-----------------------------------------------------------------------------
(* TokenManager: the JWT grant, values and pure functions *)

\* defaults merged under config.appAuth
appAuthDefaults == [algorithm |-> "RS256", expirationTime |-> 30, verifyTimestamp |-> FALSE]

\* a JavaScript number or string held in retryTimeoutinSeconds; a string by its digits
JSNumber(k) == [type |-> "number", n |-> k, digits |-> <<>>]
JSString(ds) == [type |-> "string", n |-> 0, digits |-> ds]

\* headers of a token endpoint response: date by the instant it names (in s),
\* retry-after by its text
NoDate == [present |-> FALSE, sec |-> 0]
DateHeaders == {NoDate, [present |-> TRUE, sec |-> 7]}
NoRetryAfter == [present |-> FALSE, digits |-> <<>>]

\* body.error_description by what indexOf finds in it
NoDescription == [present |-> FALSE, exp |-> FALSE, jti |-> FALSE]
Descriptions ==
    {NoDescription,
     [present |-> TRUE, exp |-> TRUE, jti |-> FALSE],
     [present |-> TRUE, exp |-> FALSE, jti |-> TRUE],
     [present |-> TRUE, exp |-> FALSE, jti |-> FALSE]}

\* bodies of token endpoint responses: tokens, nothing usable, invalid_grant
JWTBodies ==
    {[EmptyBody EXCEPT !.access_token = Str("a1"), !.expires_in = Num(3600)],
     EmptyBody,
     [EmptyBody EXCEPT !.error = Str("invalid_grant")]}

\* an error as retryJWTGrant reads it: authExpired, statusCode, response.headers
\* and response.body.error_description; hasResponse: response and statusCode are set
NoJWTError == [present |-> FALSE, kind |-> "none", authExpired |-> FALSE,
               hasResponse |-> FALSE, statusCode |-> 0, date |-> NoDate,
               description |-> NoDescription, retryAfter |-> NoRetryAfter,
               maxRetriesExceeded |-> FALSE]
\* thrown by the runtime for a property read of undefined
JWTTypeError == [NoJWTError EXCEPT !.present = TRUE, !.kind = "TypeError"]
\* an Error returned by the retry strategy
JWTStrategyError == [NoJWTError EXCEPT !.present = TRUE, !.kind = "strategy"]
\* rejections of getTokensJWTGrant before any request
JWTConfigError == [NoJWTError EXCEPT !.present = TRUE, !.kind = "config"]
JWTSignError == [NoJWTError EXCEPT !.present = TRUE, !.kind = "sign"]

NoJWTDelay == [source |-> "none", timeout |-> JSNumber(0), time |-> 0, at |-> 0]
NoClaims == [exp |-> 0, jti |-> 0]

\* instants at which a grant may begin, in ms
JWTStartTimes == {0, 2500}

\* configs of the token manager's requests
JWTConfigs == {c \in Configs : c.request.grant_type = JWT_GRANT}

\* the retry-after header of a response the executor handled
retryAfterHeader(resp) ==
    IF resp.present /\ resp.hasRetryAfter
    THEN [present |-> TRUE, digits |-> digitsOf(resp.retryAfter)]
    ELSE NoRetryAfter

\* the error with which makeRequest rejects: the executor's error, unwrapped
requestError(err, resp, date) ==
    [NoJWTError EXCEPT !.present = TRUE, !.kind = "request",
                       !.hasResponse = err.hasResponse,
                       !.statusCode = err.statusCode,
                       !.date = IF err.hasResponse THEN date ELSE NoDate,
                       !.retryAfter = IF err.hasResponse THEN retryAfterHeader(resp)
                                      ELSE NoRetryAfter]

\* util/errors: buildAuthError marks the error authExpired; all three builders
\* attach the response and its status code
buildError(kind, resp, date, description) ==
    [NoJWTError EXCEPT !.present = TRUE, !.kind = kind,
                       !.authExpired = (kind = "authError"),
                       !.hasResponse = TRUE,
                       !.statusCode = resp.statusCode,
                       !.date = date,
                       !.description = IF kind = "authError" THEN description
                                       ELSE NoDescription,
                       !.retryAfter = retryAfterHeader(resp)]

\* "true", "false", or "TypeError" where the function reads indexOf of an
\* absent error_description
isJWTAuthErrorRetryable(err) ==
    IF err.authExpired /\ err.date.present /\ ~err.description.present
    THEN "TypeError"
    ELSE IF err.authExpired /\ err.date.present
            /\ (err.description.exp \/ err.description.jti)
    THEN "true"
    ELSE IF err.hasResponse /\ (err.statusCode = 429 \/ err.statusCode >= 500)
    THEN "true"
    ELSE "false"

jwtRetriesRemainInclusive(n, cfg) == n <= cfg.numMaxRetries

\* numRetries < this.config.numMaxRetries
jwtRetriesRemain(n, cfg) == n < cfg.numMaxRetries

maxRetriesExceededNever(n, cfg) == FALSE

\* numRetries >= this.config.numMaxRetries
maxRetriesExceeded(n, cfg) == n >= cfg.numMaxRetries

\* Number(x), as Promise.delay and Math.ceil read their argument
ToNumber(x) == IF x.type = "number" THEN x.n ELSE valueOf(x.digits)

\* a + b of a number and a number or string: the sum, or the concatenation of
\* the decimal text of a with the string
Plus(a, b) == IF b.type = "number" THEN JSNumber(a + b.n)
              ELSE JSString(digitsOf(a) \o b.digits)

\* Math.ceil(ms / 1000)
ceilSeconds(ms) == (ms + 999) \div 1000

\* the delay retryJWTGrant chooses (retryTimeoutinSeconds) and where it came from
jwtRetryTimeout(err, cfg, strat, backoff) ==
    IF cfg.retryStrategy
    THEN [source |-> "strategy", timeout |-> JSNumber(strat.n)]
    ELSE IF err.hasResponse /\ err.retryAfter.present
    THEN [source |-> "retry-after", timeout |-> JSString(err.retryAfter.digits)]
    ELSE [source |-> "backoff", timeout |-> JSNumber(ceilSeconds(backoff))]

\* time: the date header of the failed response, else the local clock, in s
jwtTime(err, dateNow) ==
    IF err.date.present THEN (err.date.sec * 1000) \div 1000 ELSE dateNow \div 1000

\* claims.exp = Math.ceil(time + expirationTime + retryTimeoutinSeconds)
jwtExp(time, expirationTime, timeout) == ToNumber(Plus(time + expirationTime, timeout))

sameJwtId(used) == Cardinality(used)

\* uuid.v4(): an identifier no earlier call returned
uuidv4(used) == Cardinality(used) + 1

\* retryJWTGrant(claims, jwtOptions, keyParams, params, options, error, numRetries)
\* for each value the strategy and the backoff may produce.
\* next = "delay": Promise.delay(timeout) and then getTokens; next = "throw"
retryJWTGrant(err, n, cfg, strat, backoff, dateNow) ==
    LET retryable == IF jwtRetriesRemain(n, cfg) THEN isJWTAuthErrorRetryable(err)
                     ELSE "false"
        chosen == jwtRetryTimeout(err, cfg, strat, backoff)
        time == jwtTime(err, dateNow)
        thrown(e, k) == [next |-> "throw", numRetries |-> k, error |-> e,
                         delay |-> NoJWTDelay, exp |-> 0]
    IN  IF retryable = "TypeError" THEN thrown(JWTTypeError, n)
        ELSE IF retryable = "true"
        THEN IF cfg.retryStrategy /\ strat.type # "number"
             THEN thrown(IF strat.type = "error" THEN JWTStrategyError ELSE err, n + 1)
             ELSE [next |-> "delay", numRetries |-> n + 1, error |-> err,
                   delay |-> [source |-> chosen.source, timeout |-> chosen.timeout,
                              time |-> time, at |-> dateNow],
                   exp |-> jwtExp(time, appAuthDefaults.expirationTime, chosen.timeout)]
        ELSE thrown(IF maxRetriesExceeded(n, cfg)
                    THEN [err EXCEPT !.maxRetriesExceeded = TRUE] ELSE err, n)

JWTIdle ==
    /\ jwtPc = "idle"
    /\ jwtNumRetries = 0
    /\ jwtRequests = 0
    /\ jwtClaims = NoClaims
    /\ jwtIds = {}
    /\ jwtError = NoJWTError
    /\ jwtThrown = NoJWTError
    /\ jwtDelay = NoJWTDelay
    /\ jwtTimer = 0

-----------------------------------------------------------------------------
(* Config: values and pure functions *)

\* values of config fields: Missing is a key the object does not have, a
\* Buffer is a reference to bytes that live outside the object
Missing == [type |-> "missing", str |-> "", n |-> 0]
Null == [type |-> "null", str |-> "", n |-> 0]
Buffer(id) == [type |-> "buffer", str |-> "", n |-> id]
BufferIds == {1, 2}

\* the fields followed here, by their path in the object
ConfigPaths == {"numMaxRetries", "proxy.url", "request.agentClass",
                "request.agentOptions.host", "appAuth.privateKey",
                "appAuth.expirationTime"}

defaults ==
    [p \in ConfigPaths |->
        CASE p = "numMaxRetries" -> Num(5)
          [] p = "proxy.url" -> Null
          [] p = "request.agentClass" -> Str("https.Agent")
          [] OTHER -> Missing]

\* params a caller may pass to the constructor or to extend; key is the Buffer
\* the caller holds its private key in
ConfigParams(key) ==
    {[p \in ConfigPaths |->
        CASE p = "numMaxRetries" -> a
          [] p = "proxy.url" -> b
          [] p = "request.agentClass" -> c
          [] p = "request.agentOptions.host" -> d
          [] p = "appAuth.privateKey" -> e
          [] OTHER -> f] :
        a \in {Missing, Num(0)}, b \in {Missing, Str("http://proxy.host")},
        c \in {Missing, Str("CustomAgent")}, d \in {Missing, Str("agent.host")},
        e \in {Missing, Str("pem"), Buffer(key)}, f \in {Missing, Num(60)}}

\* validateAppAuthParams: an appAuth object carries a private key
validParams(params) ==
    params["appAuth.expirationTime"] # Missing => params["appAuth.privateKey"] # Missing

mergeFirstWins(a, b) == [p \in ConfigPaths |-> IF a[p] # Missing THEN a[p] ELSE b[p]]

\* merge-options of two objects: plain objects are merged key by key into a new
\* object, the later argument wins; any other value is copied by reference
merge(a, b) == [p \in ConfigPaths |-> IF b[p] # Missing THEN b[p] ELSE a[p]]

\* params.appAuth = merge({}, appAuthDefaults, params.appAuth)
withAppAuthDefaults(params) ==
    IF params["appAuth.privateKey"] # Missing
    THEN [params EXCEPT !["appAuth.expirationTime"] =
            IF @ = Missing THEN Num(appAuthDefaults.expirationTime) ELSE @]
    ELSE params

updateRequestAgent(params) ==
    IF params["proxy.url"].type = "string" /\ params["proxy.url"].str # ""
    THEN [params EXCEPT !["request.agentClass"] = Str("ProxyAgent"),
                        !["request.agentOptions.host"] = Str("proxy.host")]
    ELSE params

\* new Config(params): the fields of the constructed object
Config(params) == updateRequestAgent(merge(defaults, withAppAuthDefaults(params)))

\* c.extend(params): the params handed to the constructor
extend(c, params) == merge(c, params)

deepFreezeWithRequestNothing(type) == FALSE

\* whether deepFreezeWithRequest froze an object of this type that the Config
\* holds; the fields followed here live in plain objects ("object")
deepFreezeWithRequest(type) == type \notin {"buffer", "readable"}

\* the value of every field, with the bytes of the Buffers it refers to
DeepValue(fields, bytes) ==
    [p \in ConfigPaths |->
        IF fields[p].type = "buffer" THEN <<fields[p], bytes[fields[p].n]>>
        ELSE <<fields[p]>>]

NoConfigObject == [present |-> FALSE, fields |-> defaults]
NoWrite == [count |-> 0, on |-> "none"]

ConfigIdle ==
    /\ cConfig = NoConfigObject
    /\ cExtended = NoConfigObject
    /\ cOverrides = [p \in ConfigPaths |-> Missing]
    /\ cBuffer = [id \in BufferIds |-> 0]
    /\ cWrite = NoWrite

-----------------------------------------------------------------------------
(* Specification of one APIRequest *)

Init ==
    /\ InitExec
    /\ now = 0
    /\ JWTIdle
    /\ ConfigIdle
    /\ TokenIdle
    /\ SessionIdle

Next ==
    \/ Start
    \/ RequestCompletes
    \/ TimerFires
    \/ FinishTick
    \/ StreamError
    \/ StreamResponds
    \/ Tick

Spec == Init /\ [][Next]_vars

\* The HTTP layer always answers (each call has a transport timeout), timers
\* fire, and the nextTick queue runs.
FairSpec ==
    /\ Spec
    /\ WF_vars(RequestCompletes)
    /\ WF_vars(TimerFires)
    /\ WF_vars(FinishTick)

-----------------------------------------------------------------------------
(* Claims about the Request Executor *)

\* a step of _handleResponse in buffered mode
HandlesResponse == pc = "inflight" /\ pc' # "inflight"

\* C1: in buffered mode one execute(callback) eventually invokes the callback,
\* and invokes it exactly once, whatever the attempts' outcomes and the retry
\* strategy's results are.
C1_CallbackExactlyOnce ==
    /\ [](cbCount <= 1)
    /\ [](callback => <>(cbCount = 1))

C1_Witness == cbCount = 1 /\ numRetries = 2 /\ attempts = 3

C3_TemporaryServerError(status) == status >= 500 /\ status <= 599 /\ status # 507

\* C3 as stated: every 5xx response other than 507 of a buffered request with
\* retries remaining schedules exactly one retry after a strictly positive delay.
C3_Original ==
    [][(/\ HandlesResponse
        /\ response'.present
        /\ C3_TemporaryServerError(response'.statusCode)
        /\ numRetries < config.numMaxRetries)
       => (pc' = "waiting" /\ numRetries' = numRetries + 1 /\ retryTimeout' > 0)]_vars

\* C3 amended: the retry is scheduled when the request is retryable (no
\* formData, not a JWT-bearer grant) and no retry strategy is configured; its
\* delay is strictly positive when the retry-after header is positive or, with
\* no such header, retryIntervalMS is positive, and zero otherwise.
C3_RetryScheduled ==
    [][(/\ HandlesResponse
        /\ response'.present
        /\ C3_TemporaryServerError(response'.statusCode)
        /\ numRetries < config.numMaxRetries
        /\ ~config.request.formData
        /\ config.request.grant_type # JWT_GRANT
        /\ ~config.retryStrategy)
       => (/\ pc' = "waiting"
           /\ numRetries' = numRetries + 1
           /\ attempts' = attempts
           /\ retryTimeout' >= 0
           /\ (retryTimeout' > 0) <=>
                 IF response'.hasRetryAfter THEN response'.retryAfter > 0
                 ELSE config.retryIntervalMS > 0)]_vars

C3_Witness ==
    /\ pc = "waiting"
    /\ response.statusCode = 599
    /\ numRetries = 2
    /\ retryTimeout > 0
    /\ ~response.hasRetryAfter

\* C4 as stated: with numMaxRetries = 0 nothing is retried and the error given
\* to the callback has maxRetriesExceeded = true.
C4_Original ==
    config.numMaxRetries = 0 =>
        /\ pc # "waiting"
        /\ attempts <= 1
        /\ (cbCount = 1 /\ cbErr.present) => cbErr.maxRetriesExceeded

\* C4 amended: with numMaxRetries = 0 nothing is retried; the error given to the
\* callback has maxRetriesExceeded = true when the request is retryable (no
\* formData) and not a JWT-bearer grant, and does not have it otherwise.
C4_NoRetryBudget ==
    config.numMaxRetries = 0 =>
        /\ pc # "waiting"
        /\ attempts <= 1
        /\ numRetries = 0
        /\ (cbCount = 1 /\ cbErr.present) =>
              (cbErr.maxRetriesExceeded <=>
                 (~config.request.formData /\ config.request.grant_type # JWT_GRANT))

C4_Witness ==
    /\ config.numMaxRetries = 0
    /\ cbCount = 1
    /\ cbErr.present
    /\ cbErr.statusCode = 500
    /\ cbErr.maxRetriesExceeded

C5_NotTemporary(status) ==
    \/ status = 507
    \/ /\ ~(status >= 500 /\ status <= 599)
       /\ status \notin {408, 429}

\* C5: a response that is not temporary (507, or a status outside 5xx and
\* outside {408, 429}) is never retried: the handler schedules no timer, issues
\* no further attempt and finishes, whatever numMaxRetries is.
C5_PermanentNeverRetried ==
    [][(/\ HandlesResponse
        /\ response'.present
        /\ C5_NotTemporary(response'.statusCode))
       => (/\ pc' = "finishing"
           /\ numRetries' = numRetries
           /\ attempts' = attempts
           /\ retryTimeout' = 0)]_vars

C5_Witness ==
    /\ pc = "done"
    /\ callback
    /\ response.statusCode = 507
    /\ config.numMaxRetries = 2
    /\ isRetryable
    /\ attempts = 1
    /\ cbCount = 1

\* C6: a request with formData has isRetryable = false from construction on and
\* is never retried: a failed attempt, temporary statuses with retries remaining
\* included, finishes with the error after the first attempt.
C6_FormDataNeverRetried ==
    config.request.formData =>
        /\ ~isRetryable
        /\ pc # "waiting"
        /\ numRetries = 0
        /\ attempts <= 1
        /\ (callback /\ pc \in {"finishing", "done"}
              /\ (~response.present \/ response.statusCode \in {408, 429}
                    \/ C3_TemporaryServerError(response.statusCode)))
             => error.present

C6_Witness ==
    /\ config.request.formData
    /\ config.numMaxRetries = 2
    /\ pc = "done"
    /\ response.statusCode = 500
    /\ cbErr.present
    /\ attempts = 1

\* C7 as stated: whenever a retry is scheduled for a response with a retry-after
\* header of s seconds, its delay is s * 1000 ms.
C7_Original ==
    (pc = "waiting" /\ response.hasRetryAfter)
        => retryTimeout = response.retryAfter * 1000

\* C7 amended: when no retry strategy is configured, a retry scheduled for a
\* response with a retry-after header of s seconds has a delay of s * 1000 ms
\* and not the exponential-backoff value.
C7_RetryAfterOverridesBackoff ==
    (pc = "waiting" /\ response.hasRetryAfter /\ ~config.retryStrategy)
        => retryTimeout = response.retryAfter * 1000

C7_Witness ==
    /\ pc = "waiting"
    /\ response.statusCode = 429
    /\ response.hasRetryAfter
    /\ response.retryAfter = 5
    /\ retryTimeout = 5000
    /\ config.retryIntervalMS = 2

-----------------------------------------------------------------------------
(* TokenManager: operations *)

\* getTokens(formParams, options): posts the grant request
GetTokens(grantType) ==
    /\ tmPc \in {"idle", "settled"}
    /\ tmCalls < MaxGrantCalls
    /\ tmPc' = "requested"
    /\ tmCalls' = tmCalls + 1
    /\ tmGrant' = grantType
    /\ tmSentAt' = now
    /\ tmPrev' = IF tmResult.kind = "tokenInfo"
                 THEN [present |-> TRUE, body |-> tmBody.body, at |-> tmResult.at,
                       info |-> tmResult.info]
                 ELSE tmPrev
    /\ tmBody' = NoTokenResponse
    /\ tmResult' = NoResult
    /\ UNCHANGED <<tokenInfo, validCheck, now, execVars, sessionVars, jwtVars, configVars>>

GrantRequested == \E grantType \in GrantTypeValues : GetTokens(grantType)

\* makeRequest resolved: the then() handler of getTokens runs
GrantResponse(resp) ==
    /\ tmPc = "requested"
    /\ tmPc' = "settled"
    /\ tmBody' = resp
    /\ tmResult' = getTokensThen(tmGrant, resp, now)
    /\ UNCHANGED <<tmGrant, tmCalls, tmSentAt, tmPrev, tokenInfo, validCheck, now,
                   execVars, sessionVars, jwtVars, configVars>>

GrantResponds == \E resp \in TokenResponses : GrantResponse(resp)

\* makeRequest rejected: getTokens rejects with the request's error
GrantRequestFails ==
    /\ tmPc = "requested"
    /\ tmPc' = "settled"
    /\ tmResult' = [kind |-> "requestError", info |-> NoTokenInfo, at |-> now]
    /\ UNCHANGED <<tmGrant, tmCalls, tmSentAt, tmBody, tmPrev, tokenInfo, validCheck,
                   now, execVars, sessionVars, jwtVars, configVars>>

TokenClock ==
    /\ \E t \in TokenTimePoints : t > now /\ now' = t
    /\ UNCHANGED <<tokenVars, execVars, sessionVars, jwtVars, configVars>>

InitToken ==
    /\ Constructed(DefaultConfig)
    /\ now = 0
    /\ JWTIdle
    /\ ConfigIdle
    /\ TokenIdle
    /\ SessionIdle

NextToken ==
    \/ GrantRequested
    \/ GrantResponds
    \/ GrantRequestFails
    \/ TokenClock

SpecToken == InitToken /\ [][NextToken]_vars

\* isAccessTokenValid(tokenInfo, bufferMS)
IsAccessTokenValid(bufferMS) ==
    /\ validCheck' = [called |-> TRUE, bufferMS |-> bufferMS, at |-> now,
                      result |-> isAccessTokenValid(tokenInfo, bufferMS, now)]
    /\ UNCHANGED <<tmPc, tmGrant, tmCalls, tmSentAt, tmBody, tmResult, tmPrev, tokenInfo,
                   now, execVars, sessionVars, jwtVars, configVars>>

ValidityChecked == \E bufferMS \in BufferValues : IsAccessTokenValid(bufferMS)

ValidClock ==
    /\ \E t \in ValidTimePoints : t > now /\ now' = t
    /\ UNCHANGED <<tokenVars, execVars, sessionVars, jwtVars, configVars>>

InitValid ==
    /\ Constructed(DefaultConfig)
    /\ now = 0
    /\ JWTIdle
    /\ ConfigIdle
    /\ tmPc = "idle"
    /\ tmGrant = "none"
    /\ tmCalls = 0
    /\ tmSentAt = 0
    /\ tmBody = NoTokenResponse
    /\ tmResult = NoResult
    /\ tmPrev = NoPrev
    /\ tokenInfo \in CheckedTokenInfos
    /\ validCheck = NoValidCheck
    /\ SessionIdle

NextValid ==
    \/ ValidityChecked
    \/ ValidClock

SpecValid == InitValid /\ [][NextValid]_vars

-----------------------------------------------------------------------------
(* Claims about the Token Manager *)

\* C8: isAccessTokenValid(tokenInfo, bufferMS) is true iff
\* acquiredAtMS + accessTokenTTLMS - bufferMS > now, with bufferMS taken as 0
\* when omitted, and false when tokenInfo lacks acquiredAtMS or accessTokenTTLMS.
C8_ValidIffBeforeExpiry ==
    validCheck.called =>
        IF tokenInfo.acquiredAtMS = Undefined \/ tokenInfo.accessTokenTTLMS = Undefined
        THEN validCheck.result = FALSE
        ELSE validCheck.result =
               (tokenInfo.acquiredAtMS.n + tokenInfo.accessTokenTTLMS.n
                  - (IF validCheck.bufferMS = Undefined THEN 0 ELSE validCheck.bufferMS.n)
                > validCheck.at)

\* the expiry instant itself: the token is no longer valid
C8_Witness ==
    /\ validCheck.called
    /\ ~validCheck.result
    /\ tokenInfo.acquiredAtMS = Num(1000)
    /\ tokenInfo.accessTokenTTLMS = Num(1000)
    /\ validCheck.bufferMS = Num(1000)
    /\ validCheck.at = 1000

\* C9: a valid grant response {access_token: a, refresh_token: r, expires_in: s}
\* parsed at time T yields {accessToken: a, refreshToken: r, accessTokenTTLMS:
\* s * 1000, acquiredAtMS: T}, T being the clock when the response is parsed;
\* two parses of the same response agree on accessToken, refreshToken and
\* accessTokenTTLMS.
C9_GrantResponseParsed ==
    /\ tmResult.kind = "tokenInfo" =>
          /\ tmResult.info.accessToken = tmBody.body.access_token
          /\ tmResult.info.refreshToken = tmBody.body.refresh_token
          /\ tmResult.info.accessTokenTTLMS = Num(tmBody.body.expires_in.n * 1000)
          /\ tmResult.info.acquiredAtMS = Num(tmResult.at)
          /\ tmResult.at >= tmSentAt
    /\ (tmResult.kind = "tokenInfo" /\ tmPrev.present /\ tmPrev.body = tmBody.body) =>
          /\ tmResult.info.accessToken = tmPrev.info.accessToken
          /\ tmResult.info.refreshToken = tmPrev.info.refreshToken
          /\ tmResult.info.accessTokenTTLMS = tmPrev.info.accessTokenTTLMS

\* the same response parsed twice, each time later than its request was sent
C9_Witness ==
    /\ tmResult.kind = "tokenInfo"
    /\ tmGrant = "refresh_token"
    /\ tmBody.body.expires_in = Num(3600)
    /\ tmResult.info.accessTokenTTLMS = Num(3600000)
    /\ tmSentAt = 1000
    /\ tmResult.info.acquiredAtMS = Num(3600001)
    /\ tmPrev.present
    /\ tmPrev.body = tmBody.body
    /\ tmPrev.info.acquiredAtMS = Num(1000)

\* a 200 response with a JSON body and no invalid_grant error
C10_Case == tmPc = "settled" /\ tmResult.kind # "requestError"
            /\ tmBody.statusCode = 200 /\ ~tmBody.isBuffer
            /\ tmBody.body.error # Str("invalid_grant")

C10_MissingOrEmpty(v) == v = Undefined \/ v = Str("")

\* C10 as stated: in that case getTokens raises the malformed-token-response
\* error iff access_token is missing or empty or (for authorization_code and
\* refresh_token grants) refresh_token is missing or empty, and returns a
\* TokenInfo otherwise.
C10_Original ==
    C10_Case =>
        IF \/ C10_MissingOrEmpty(tmBody.body.access_token)
           \/ /\ tmGrant \in {"authorization_code", "refresh_token"}
              /\ C10_MissingOrEmpty(tmBody.body.refresh_token)
        THEN tmResult.kind = "malformedTokenResponseError"
        ELSE tmResult.kind = "tokenInfo"

C10_NotNonEmptyString(v) == v.type # "string" \/ v.str = ""

\* C10 amended: the malformed-token-response error is raised iff access_token is
\* not a non-empty string, or expires_in is not a number, or (for
\* authorization_code and refresh_token grants) refresh_token is not a non-empty
\* string; a TokenInfo is returned otherwise.  A client-credentials response {}
\* raises the error and builds no TokenInfo.
C10_MalformedTokenResponse ==
    C10_Case =>
        /\ IF \/ C10_NotNonEmptyString(tmBody.body.access_token)
              \/ tmBody.body.expires_in.type # "number"
              \/ /\ tmGrant \in {"authorization_code", "refresh_token"}
                 /\ C10_NotNonEmptyString(tmBody.body.refresh_token)
           THEN tmResult.kind = "malformedTokenResponseError"
           ELSE tmResult.kind = "tokenInfo"
        /\ tmResult.kind = "malformedTokenResponseError" => tmResult.info = NoTokenInfo

C10_Witness ==
    /\ C10_Case
    /\ tmGrant = "client_credentials"
    /\ tmBody.body = EmptyBody
    /\ tmResult.kind = "malformedTokenResponseError"
    /\ tmResult.info = NoTokenInfo

-----------------------------------------------------------------------------
(* Sessions: getAccessToken of the refreshing sessions (CCGSession,        *)
(* AppAuthSession), after spec.md 4.4; validity is TokenManager's           *)
(* isAccessTokenValid and a grant's result is built by                      *)
(* getTokensFromGrantResponse.                                              *)

\* instants around the validity of a one-hour token
SessionTimePoints == {0, 3000000, 3420000, 7020000}

\* bodies with which a grant call succeeds
SessionGrantBodies ==
    {[access_token |-> Str(a), refresh_token |-> Undefined,
      expires_in |-> Num(3600), error |-> Undefined] : a \in {"a1", "a2"}}

\* no token yet, or the token is expired (beyond the expired buffer)
tokenExpired(ti, cfg, dateNow) == ~isAccessTokenValid(ti, cfg.expiredBufferMS, dateNow)

\* the token is inside the stale buffer
tokenStale(ti, cfg, dateNow) == ~isAccessTokenValid(ti, cfg.staleBufferMS, dateNow)

refreshNeverInFlight(refreshPromise) == FALSE

\* "a refresh is already in flight": the session holds a refresh promise
refreshInFlight(refreshPromise) == refreshPromise # 0

\* the refresh promise after _refreshAccessToken: the one held, or that of a
\* new grant call
refreshPromiseAfter(refreshPromise, grantCalls) ==
    IF refreshInFlight(refreshPromise) THEN refreshPromise ELSE grantCalls + 1

refreshPromiseKept(refreshPromise) == refreshPromise

\* the in-flight marker once the refresh completed, resolved or rejected
refreshPromiseOnSettle(refreshPromise) == 0

\* getAccessToken(options) called by c.  The check for a refresh in flight and
\* the start of a grant are one step.
GetAccessToken(c) ==
    /\ sCaller[c] = "idle"
    /\ LET expired == tokenExpired(sTokenInfo, sConfig, now)
           stale == tokenStale(sTokenInfo, sConfig, now)
           refresh == expired \/ stale
           starts == refresh /\ ~refreshInFlight(sRefreshPromise)
           promise == refreshPromiseAfter(sRefreshPromise, sGrantCalls)
       IN  /\ starts => sGrantCalls < MaxRefreshes
           /\ sRefreshPromise' = IF refresh THEN promise ELSE sRefreshPromise
           /\ sInFlight' = IF starts THEN sInFlight \cup {promise} ELSE sInFlight
           /\ sGrantCalls' = IF starts THEN sGrantCalls + 1 ELSE sGrantCalls
           /\ IF expired
              THEN /\ sCaller' = [sCaller EXCEPT ![c] = "waiting"]
                   /\ sCallerGrant' = [sCallerGrant EXCEPT ![c] = promise]
                   /\ UNCHANGED sCallerToken
              ELSE /\ sCaller' = [sCaller EXCEPT ![c] = "resolved"]
                   /\ sCallerToken' = [sCallerToken EXCEPT ![c] = sTokenInfo.accessToken]
                   /\ UNCHANGED sCallerGrant
    /\ sRevoke' = IF sRevoke.state # "none" THEN [sRevoke EXCEPT !.served = TRUE]
                  ELSE sRevoke
    /\ UNCHANGED <<sConfig, sTokenInfo, sTokenGrant, sStore, sHandled, now, execVars,
                   tokenVars, jwtVars, configVars>>

Calls == \E c \in Callers : GetAccessToken(c)

\* grant call k succeeds: the TokenInfo is cached, the marker is cleared and
\* the callers chained to k are resolved with the new access token
RefreshSucceeds(k, body) ==
    /\ k \in sInFlight
    /\ LET newTokenInfo == getTokensFromGrantResponse(body, now)
       IN  /\ sTokenInfo' = newTokenInfo
           /\ sTokenGrant' = k
           /\ sCaller' = [c \in Callers |->
                            IF sCaller[c] = "waiting" /\ sCallerGrant[c] = k
                            THEN "resolved" ELSE sCaller[c]]
           /\ sCallerToken' = [c \in Callers |->
                                 IF sCaller[c] = "waiting" /\ sCallerGrant[c] = k
                                 THEN newTokenInfo.accessToken ELSE sCallerToken[c]]
    /\ sInFlight' = sInFlight \ {k}
    /\ sRefreshPromise' = refreshPromiseOnSettle(sRefreshPromise)
    /\ UNCHANGED <<sConfig, sGrantCalls, sCallerGrant, sRevoke, sStore, sHandled, now,
                   execVars, tokenVars, jwtVars, configVars>>

\* grant call k fails: the marker is cleared and the callers chained to k are
\* rejected; the cached TokenInfo stays
RefreshFails(k) ==
    /\ k \in sInFlight
    /\ sCaller' = [c \in Callers |->
                     IF sCaller[c] = "waiting" /\ sCallerGrant[c] = k
                     THEN "rejected" ELSE sCaller[c]]
    /\ sInFlight' = sInFlight \ {k}
    /\ sRefreshPromise' = refreshPromiseOnSettle(sRefreshPromise)
    /\ UNCHANGED <<sConfig, sTokenInfo, sTokenGrant, sGrantCalls, sCallerToken,
                   sCallerGrant, sRevoke, sStore, sHandled, now, execVars, tokenVars, jwtVars, configVars>>

RefreshSettles ==
    \E k \in 1 .. MaxRefreshes :
        \/ \E body \in SessionGrantBodies : RefreshSucceeds(k, body)
        \/ RefreshFails(k)

\* a caller whose promise settled is free to call again
CallerReturns ==
    \E c \in Callers :
        /\ sCaller[c] \in {"resolved", "rejected"}
        /\ sCaller' = [sCaller EXCEPT ![c] = "idle"]
        /\ sCallerToken' = [sCallerToken EXCEPT ![c] = Undefined]
        /\ sCallerGrant' = [sCallerGrant EXCEPT ![c] = 0]
        /\ UNCHANGED <<sConfig, sTokenInfo, sTokenGrant, sRefreshPromise, sInFlight,
                       sGrantCalls, sRevoke, sStore, sHandled, now, execVars, tokenVars, jwtVars, configVars>>

cachedKeptAfterRevoke(ti, grant) == [info |-> ti, grant |-> grant]

\* the cached state once revokeTokens was called: nothing
cachedAfterRevoke(ti, grant) == [info |-> NoTokenInfo, grant |-> 0]

\* revokeTokens(options) on a session that caches a token: the token goes to
\* the revoke endpoint (TokenManager.revokeTokens) and the cache is cleared
RevokeTokens ==
    /\ sTokenInfo # NoTokenInfo
    /\ sRevoke.state # "pending"
    /\ sRevoke' = [state |-> "pending", grant |-> sTokenGrant, served |-> FALSE]
    /\ sTokenInfo' = cachedAfterRevoke(sTokenInfo, sTokenGrant).info
    /\ sTokenGrant' = cachedAfterRevoke(sTokenInfo, sTokenGrant).grant
    /\ UNCHANGED <<sConfig, sRefreshPromise, sInFlight, sGrantCalls, sCaller,
                   sCallerToken, sCallerGrant, sStore, sHandled, now, execVars, tokenVars, jwtVars, configVars>>

\* the promise of revokeTokens settles
RevokeCompletes ==
    /\ sRevoke.state = "pending"
    /\ sRevoke' = [sRevoke EXCEPT !.state = "done"]
    /\ UNCHANGED <<sConfig, sTokenInfo, sTokenGrant, sRefreshPromise, sInFlight,
                   sGrantCalls, sCaller, sCallerToken, sCallerGrant, sStore, sHandled,
                   now, execVars, tokenVars, jwtVars, configVars>>

expiredTokensResultAlwaysOriginal(storePresent, clearFailed) == "original"

\* what handleExpiredTokensError resolves with
expiredTokensResult(storePresent, clearFailed) ==
    IF storePresent /\ clearFailed THEN "storeError" ELSE "original"

\* handleExpiredTokensError(err) for an API call that failed with an
\* expired-tokens error: with no token store it resolves with err at once,
\* otherwise it asks the store to clear itself
HandleExpiredTokensError ==
    /\ sHandled.state = "idle"
    /\ sHandled' = IF sStore = "absent"
                   THEN [state |-> "done", result |-> expiredTokensResult(FALSE, FALSE)]
                   ELSE [state |-> "clearing", result |-> "none"]
    /\ UNCHANGED <<sConfig, sTokenInfo, sTokenGrant, sRefreshPromise, sInFlight,
                   sGrantCalls, sCaller, sCallerToken, sCallerGrant, sRevoke, sStore,
                   now, execVars, tokenVars, jwtVars, configVars>>

\* the callback of tokenStore.clear
StoreClearCompletes ==
    /\ sHandled.state = "clearing"
    /\ \E clearFailed \in BOOLEAN :
          /\ sStore' = IF clearFailed THEN sStore ELSE "cleared"
          /\ sHandled' = [state |-> "done",
                          result |-> expiredTokensResult(TRUE, clearFailed)]
    /\ UNCHANGED <<sConfig, sTokenInfo, sTokenGrant, sRefreshPromise, sInFlight,
                   sGrantCalls, sCaller, sCallerToken, sCallerGrant, sRevoke, now,
                   execVars, tokenVars, jwtVars, configVars>>

SessionClock ==
    /\ \E t \in SessionTimePoints : t > now /\ now' = t
    /\ UNCHANGED <<execVars, tokenVars, sessionVars, jwtVars, configVars>>

InitSession ==
    /\ Constructed(DefaultConfig)
    /\ now = 0
    /\ JWTIdle
    /\ ConfigIdle
    /\ TokenIdle
    /\ sConfig \in SessionConfigs
    /\ sTokenInfo = NoTokenInfo
    /\ sRefreshPromise = 0
    /\ sInFlight = {}
    /\ sGrantCalls = 0
    /\ sCaller = [c \in Callers |-> "idle"]
    /\ sCallerToken = [c \in Callers |-> Undefined]
    /\ sCallerGrant = [c \in Callers |-> 0]
    /\ sTokenGrant = 0
    /\ sRevoke = NoRevoke
    /\ sStore = "absent"
    /\ sHandled = NoHandled

NextSession ==
    \/ Calls
    \/ RefreshSettles
    \/ CallerReturns
    \/ RevokeTokens
    \/ RevokeCompletes
    \/ SessionClock

SpecSession == InitSession /\ [][NextSession]_vars

\* a session with or without a token store, whose callers' API calls may fail
\* with an expired-tokens error
InitStore ==
    /\ Constructed(DefaultConfig)
    /\ now = 0
    /\ JWTIdle
    /\ ConfigIdle
    /\ TokenIdle
    /\ sConfig \in SessionConfigs
    /\ sTokenInfo = NoTokenInfo
    /\ sRefreshPromise = 0
    /\ sInFlight = {}
    /\ sGrantCalls = 0
    /\ sCaller = [c \in Callers |-> "idle"]
    /\ sCallerToken = [c \in Callers |-> Undefined]
    /\ sCallerGrant = [c \in Callers |-> 0]
    /\ sTokenGrant = 0
    /\ sRevoke = NoRevoke
    /\ sStore \in {"absent", "filled"}
    /\ sHandled = NoHandled

NextStore ==
    \/ Calls
    \/ RefreshSettles
    \/ CallerReturns
    \/ HandleExpiredTokensError
    \/ StoreClearCompletes

SpecStore == InitStore /\ [][NextStore]_vars

-----------------------------------------------------------------------------
(* Claims about the sessions *)

\* c calls getAccessToken in this step
C2_Calls(c) == sCaller[c] = "idle" /\ sCaller'[c] # "idle"

\* callers whose promise is chained to the same grant call
C2_SameGrant(c, d) == sCallerGrant[c] # 0 /\ sCallerGrant[c] = sCallerGrant[d]

\* C2: getAccessToken calls made on one session while no valid token is cached
\* share one grant call: a call made while another caller is blocked issues no
\* grant call, every blocked caller waits on the one grant call in flight, and
\* the callers of one grant call all receive the same access token or all fail.
C2_SingleFlight ==
    /\ [](\A c \in Callers : sCaller[c] = "waiting" =>
              sInFlight = {sCallerGrant[c]} /\ sRefreshPromise = sCallerGrant[c])
    /\ [](\A c, d \in Callers :
              (C2_SameGrant(c, d) /\ sCaller[c] # "waiting" /\ sCaller[d] # "waiting")
                  => sCaller[c] = sCaller[d] /\ sCallerToken[c] = sCallerToken[d])
    /\ [][\A c \in Callers :
              (C2_Calls(c) /\ tokenExpired(sTokenInfo, sConfig, now)
                  /\ \E d \in Callers : sCaller[d] = "waiting")
                  => sGrantCalls' = sGrantCalls /\ sCallerGrant'[c] = sRefreshPromise]_vars

\* two callers blocked on the refresh of an expired token, both resolved with
\* the token of the session's second grant call
C2_Witness ==
    /\ sCaller = [c \in Callers |-> "resolved"]
    /\ \A c \in Callers : sCallerGrant[c] = 2 /\ sCallerToken[c] = Str("a2")
    /\ sGrantCalls = 2
    /\ sTokenInfo.accessToken = Str("a2")
    /\ sTokenInfo.acquiredAtMS = Num(3420000)

-----------------------------------------------------------------------------
(* More claims about the sessions *)

\* a grant call completes in this step
C12_Settles == sInFlight' # sInFlight /\ sInFlight' \subseteq sInFlight

\* C12: the in-flight marker is cleared when the refresh completes, resolved or
\* rejected, and a getAccessToken call made once no refresh is in flight, with
\* still no valid token, starts a new grant call and waits on that one.
C12_MarkerCleared ==
    [][/\ C12_Settles => sRefreshPromise' = 0
       /\ \A c \in Callers :
            (C2_Calls(c) /\ sInFlight = {} /\ tokenExpired(sTokenInfo, sConfig, now))
                => /\ sGrantCalls' = sGrantCalls + 1
                   /\ sInFlight' = {sGrantCalls'}
                   /\ sCaller'[c] = "waiting"
                   /\ sCallerGrant'[c] = sGrantCalls']_vars

\* the first refresh failed and rejected its caller; the next call, with still
\* no token, waits on a second grant call
C12_Witness ==
    /\ sTokenInfo = NoTokenInfo
    /\ sRevoke = NoRevoke
    /\ sCaller[1] = "rejected" /\ sCallerGrant[1] = 1
    /\ sCaller[2] = "waiting" /\ sCallerGrant[2] = 2
    /\ sInFlight = {2}
    /\ sGrantCalls = 2

\* the held token is still valid (outside the expired buffer) and inside the
\* stale buffer at the instant now
C13_StaleButValid ==
    /\ sTokenInfo # NoTokenInfo
    /\ sTokenInfo.acquiredAtMS.n + sTokenInfo.accessTokenTTLMS.n
          - sConfig.expiredBufferMS.n > now
    /\ sTokenInfo.acquiredAtMS.n + sTokenInfo.accessTokenTTLMS.n
          - sConfig.staleBufferMS.n <= now

\* C13: getAccessToken on a stale but valid token resolves at once with the
\* held token and leaves a background refresh in flight; when a refresh
\* settles, a caller already resolved keeps its result, and a rejection reaches
\* only callers that were blocked on that refresh.
C13_StaleBackgroundRefresh ==
    [][/\ \A c \in Callers :
            (C2_Calls(c) /\ C13_StaleButValid)
                => /\ sCaller'[c] = "resolved"
                   /\ sCallerToken'[c] = sTokenInfo.accessToken
                   /\ sCallerGrant'[c] = 0
                   /\ sInFlight' # {}
                   /\ sRefreshPromise' \in sInFlight'
       /\ C12_Settles =>
            \A c \in Callers :
                /\ sCaller[c] = "resolved"
                      => sCaller'[c] = "resolved" /\ sCallerToken'[c] = sCallerToken[c]
                /\ (sCaller'[c] = "rejected" /\ sCaller[c] # "rejected")
                      => sCaller[c] = "waiting" /\ sCallerGrant[c] \in sInFlight \ sInFlight']_vars

\* caller 1 was served the stale token while the background refresh it started
\* failed; caller 2, blocked on that refresh after the token expired, was rejected
C13_Witness ==
    /\ sCaller[1] = "resolved" /\ sCallerGrant[1] = 0 /\ sCallerToken[1] = Str("a1")
    /\ sCaller[2] = "rejected" /\ sCallerGrant[2] = 2
    /\ sTokenInfo.accessToken = Str("a1")
    /\ sTokenGrant = 1
    /\ sInFlight = {}
    /\ now = 3420000

\* the grant call whose token c receives in this step
C14_TokenSource(c) == IF sCaller[c] = "idle" THEN sTokenGrant ELSE sCallerGrant[c]

C15_ExpiredTokensHandled ==
    sHandled.state = "done" =>
        /\ sHandled.result \in {"original", "storeError"}
        /\ sHandled.result = "original" <=> sStore \in {"absent", "cleared"}
        /\ sHandled.result = "storeError" <=> sStore = "filled"

\* the clear of the store failed and the caller got the token-store error
C15_Witness ==
    /\ sHandled = [state |-> "done", result |-> "storeError"]
    /\ sStore = "filled"

-----------------------------------------------------------------------------
(* Claims about what leaves the executor *)

\* the request object reachable from an emitted or delivered (err, response):
\* err.request as _handleResponse attached it; for a response, the request
\* object that produced it (this.request, which is also the stream handed out
\* by getResponseStream)
requestReachable(err, resp) ==
    IF err.present THEN err.request ELSE reqHeaders

C11_Redacted(h) == h.Authorization # "secret" /\ h.BoxApi # "secret"

\* C11: whenever an error or a response has been emitted on the event bus or
\* handed to the caller, in buffered and in streaming mode, the Authorization
\* and BoxApi headers of the request object reachable from it are redacted.
C11_Original ==
    /\ busCount > 0 => C11_Redacted(requestReachable(busLast.err, busLast.response))
    /\ cbCount > 0 => C11_Redacted(requestReachable(cbErr, cbResponse))

\* the attempt handled in this step failed with a transport error or with a
\* temporary status
FailsTemporarily ==
    /\ HandlesResponse
    /\ \/ ~response'.present
       \/ response'.statusCode \in {408, 429}
       \/ C3_TemporaryServerError(response'.statusCode)

\* the retry strategy, when one is configured, returned a number in this step
StrategyAllowsRetry == config.retryStrategy => retryOptions'.returned.type = "number"

\* a grant request other than the JWT-bearer grant (getTokens of the
\* authorization-code, refresh-token, client-credentials and token-exchange
\* grants; revoke is posted the same way)
C16_Grant == config.request.grant_type \notin {"none", JWT_GRANT}

C17_Decides ==
    /\ retryOptions'.called
    /\ retryOptions'.numRetryAttempts = numRetries + 1
    /\ retryOptions'.returned.type = "number"
          => /\ pc' = "waiting"
             /\ retryTimeout' = retryOptions'.returned.n
             /\ attempts' = attempts
    /\ retryOptions'.returned.type = "error"
          => pc' = "finishing" /\ error' = StrategyError
    /\ retryOptions'.returned.type = "other"
          => /\ pc' = "finishing"
             /\ error'.kind \in {"transport", "response"}
             /\ error'.hasRequest
             /\ error'.hasResponse = response'.present
             /\ error'.statusCode = response'.statusCode

\* C17 as stated: with a retry strategy configured and retries remaining, the
\* strategy's return value decides the next step of every failed buffered request.
C17_Original ==
    [][(FailsTemporarily /\ config.retryStrategy /\ numRetries < config.numMaxRetries)
          => C17_Decides]_vars

\* C17 amended: that holds for a request that is retryable (no formData) and
\* not a JWT-bearer grant; other requests finish with the current error and the
\* strategy is not called.  A number n schedules the next attempt after n ms
\* whatever the retry-after header says, an Error ends the request with that
\* Error, any other value with the current error; the callback receives the
\* error the request ended with and no further attempt is made.
C17_StrategyDecides ==
    /\ [][(FailsTemporarily /\ config.retryStrategy /\ numRetries < config.numMaxRetries)
            => IF ~config.request.formData /\ config.request.grant_type # JWT_GRANT
               THEN C17_Decides
               ELSE /\ retryOptions' = retryOptions
                    /\ pc' = "finishing"
                    /\ error'.kind \in {"transport", "response"}]_vars
    /\ [][pc = "finishing" =>
            pc' = "done" /\ cbErr' = error /\ cbCount' = 1 /\ attempts' = attempts]_vars

\* the strategy's Error reached the callback in place of the error of a 429
\* response that carried a retry-after header
C17_Witness ==
    /\ pc = "done"
    /\ cbCount = 1
    /\ cbErr = StrategyError
    /\ retryOptions.returned.type = "error"
    /\ response.statusCode = 429
    /\ response.hasRetryAfter
    /\ numRetries = 2
    /\ attempts = 2

\* C18 as stated: a transport error is surfaced after that single attempt and
\* no retry is scheduled, even when retries remain.
C18_Original ==
    [][(HandlesResponse /\ ~response'.present)
          => pc' = "finishing" /\ numRetries' = numRetries]_vars

\* C18 amended: a transport error is handled like a temporary failure: a retry
\* is scheduled if and only if the request is retryable (no formData), is not
\* a JWT-bearer grant, retries remain and the retry strategy, if one is
\* configured, returns a number; otherwise the request finishes with an error.
C18_TransportErrorRetried ==
    [][(HandlesResponse /\ ~response'.present)
          => /\ pc' \in {"waiting", "finishing"}
             /\ pc' = "waiting" <=>
                   /\ ~config.request.formData
                   /\ config.request.grant_type # JWT_GRANT
                   /\ numRetries < config.numMaxRetries
                   /\ StrategyAllowsRetry
             /\ pc' = "waiting" => numRetries' = numRetries + 1
             /\ pc' = "finishing" => error'.present]_vars

\* a retry scheduled after a transport error
C18_Witness ==
    /\ pc = "waiting"
    /\ ~response.present
    /\ attempts = 1
    /\ numRetries = 1
    /\ ~config.retryStrategy

\* C19: every error delivered to a buffered-mode callback carries the request
\* with its sensitive headers redacted, the status code whenever a response
\* was received, and maxRetriesExceeded = true whenever the retry budget was
\* exhausted (all numMaxRetries retries of a retryable request were made).
C19_Original ==
    (cbCount = 1 /\ cbErr.present) =>
        /\ cbErr.hasRequest
        /\ cbErr.request = cleanSensitiveHeaders(requestHeaders(config))
        /\ response.present => cbErr.hasResponse /\ cbErr.statusCode = response.statusCode
        /\ (isRetryable /\ config.request.grant_type # JWT_GRANT
              /\ attempts = config.numMaxRetries + 1) => cbErr.maxRetriesExceeded

\* C20: in streaming mode a response with a status in [400,499] is reported as
\* an error and not as a response, and every response reported as a response
\* has a status outside [400,499].
C20_StreamingClientError ==
    (pc = "streamed" /\ response.present) =>
        /\ (response.statusCode >= 400 /\ response.statusCode <= 499)
              => busLast.err.present /\ busLast.response = NoResponse
        /\ busLast.response # NoResponse
              => /\ ~busLast.err.present
                 /\ busLast.response = response
                 /\ ~(response.statusCode >= 400 /\ response.statusCode <= 499)
        /\ busCount = 1
        /\ cbCount = 0

\* a 499 response of a streaming request, emitted as an error
C20_Witness ==
    /\ pc = "streamed"
    /\ ~callback
    /\ response.statusCode = 499
    /\ busLast.err.present
    /\ busLast.response = NoResponse

-----------------------------------------------------------------------------
(* Config: operations *)

\* c.extend(o) for overrides the constructor accepts
Extend(o) ==
    /\ cConfig.present
    /\ ~cExtended.present
    /\ validParams(extend(cConfig.fields, o))
    /\ cExtended' = [present |-> TRUE, fields |-> Config(extend(cConfig.fields, o))]
    /\ cOverrides' = o
    /\ UNCHANGED <<cConfig, cBuffer, cWrite>>
    /\ UNCHANGED <<execVars, now, tokenVars, sessionVars, jwtVars>>

Extends == \E o \in ConfigParams(2) : Extend(o)

\* config.path = value on c ("c") or on the extended Config ("e"): the
\* assignment changes the field unless its object was frozen
WriteField(which, path) ==
    /\ cWrite.count < MaxWrites
    /\ IF which = "c" THEN cConfig.present ELSE cExtended.present
    /\ LET written(cfg) == IF deepFreezeWithRequest("object") THEN cfg
                           ELSE [cfg EXCEPT !.fields[path] = Str("written")]
       IN  /\ cConfig' = IF which = "c" THEN written(cConfig) ELSE cConfig
           /\ cExtended' = IF which = "e" THEN written(cExtended) ELSE cExtended
    /\ cWrite' = [count |-> cWrite.count + 1, on |-> "field"]
    /\ UNCHANGED <<cOverrides, cBuffer>>
    /\ UNCHANGED <<execVars, now, tokenVars, sessionVars, jwtVars>>

WritesField == \E which \in {"c", "e"} : \E path \in ConfigPaths : WriteField(which, path)

\* config.appAuth.privateKey[0] = byte, where the private key is a Buffer
WriteByte(which) ==
    /\ cWrite.count < MaxWrites
    /\ LET cfg == IF which = "c" THEN cConfig ELSE cExtended
           key == cfg.fields["appAuth.privateKey"]
       IN  /\ cfg.present
           /\ key.type = "buffer"
           /\ cBuffer' = IF deepFreezeWithRequest(key.type) THEN cBuffer
                         ELSE [cBuffer EXCEPT ![key.n] = 1 - @]
    /\ cWrite' = [count |-> cWrite.count + 1, on |-> "buffer"]
    /\ UNCHANGED <<cConfig, cExtended, cOverrides>>
    /\ UNCHANGED <<execVars, now, tokenVars, sessionVars, jwtVars>>

WritesByte == \E which \in {"c", "e"} : WriteByte(which)

InitConfig ==
    /\ Constructed(DefaultConfig)
    /\ now = 0
    /\ JWTIdle
    /\ TokenIdle
    /\ SessionIdle
    /\ \E params \in ConfigParams(1) :
          /\ validParams(params)
          /\ cConfig = [present |-> TRUE, fields |-> Config(params)]
    /\ cExtended = NoConfigObject
    /\ cOverrides = [p \in ConfigPaths |-> Missing]
    /\ cBuffer = [id \in BufferIds |-> 0]
    /\ cWrite = NoWrite

NextConfig ==
    \/ Extends
    \/ WritesField
    \/ WritesByte

SpecConfig == InitConfig /\ [][NextConfig]_vars

\* extend has just returned
Extended == cExtended'.present /\ ~cExtended.present

\* request.agentClass and request.agentOptions are set by the constructor from
\* the proxy settings when a proxy URL is configured
SetFromProxy(p, fields) ==
    /\ p \in {"request.agentClass", "request.agentOptions.host"}
    /\ fields["proxy.url"].type = "string"

ConfigsKeepValue ==
    /\ DeepValue(cConfig'.fields, cBuffer') = DeepValue(cConfig.fields, cBuffer)
    /\ DeepValue(cExtended'.fields, cBuffer') = DeepValue(cExtended.fields, cBuffer)

\* C21 as stated: the overrides win for every field, extend leaves c as it
\* was, and no later write changes the value of a field of either Config
C21_Original ==
    [][/\ Extended =>
            /\ \A p \in ConfigPaths :
                  cOverrides'[p] # Missing => cExtended'.fields[p] = cOverrides'[p]
            /\ DeepValue(cConfig'.fields, cBuffer') = DeepValue(cConfig.fields, cBuffer)
       /\ cWrite'.count > cWrite.count => ConfigsKeepValue]_vars

\* C21: c.extend(o) returns a new Config in which the fields of o take
\* precedence over those of c, except request.agentClass and
\* request.agentOptions when a proxy URL is configured; extend leaves every
\* field of c as it was; a later write to a field of either Config has no
\* effect, the bytes of a Buffer held in a field excepted
C21_ExtendAndFreeze ==
    [][/\ Extended =>
            /\ \A p \in ConfigPaths :
                  (cOverrides'[p] # Missing /\ ~SetFromProxy(p, cExtended'.fields))
                      => cExtended'.fields[p] = cOverrides'[p]
            /\ DeepValue(cConfig'.fields, cBuffer') = DeepValue(cConfig.fields, cBuffer)
       /\ (cWrite'.count > cWrite.count /\ cWrite'.on = "field") => ConfigsKeepValue]_vars

C21_Witness ==
    /\ cExtended.present
    /\ cOverrides["numMaxRetries"] # Missing
    /\ cExtended.fields["numMaxRetries"] # cConfig.fields["numMaxRetries"]
    /\ cWrite.on = "field"
    /\ cWrite.count = MaxWrites

-----------------------------------------------------------------------------
(* TokenManager: the JWT grant, operations *)

\* getTokens(params, options) of a JWT grant: makeRequest constructs an
\* APIRequest for the token endpoint and executes it with a callback; jti is the
\* JWT ID of the assertion in params, at the clock
JWTGetTokens(jti, at) ==
    /\ isRetryable' = isRequestRetryable(config.request)
    /\ callback' = nextCallback(TRUE, FALSE)
    /\ pc' = "inflight"
    /\ numRetries' = 0
    /\ attempts' = 1
    /\ reqHeaders' = requestHeaders(config)
    /\ response' = NoResponse
    /\ error' = NoError
    /\ retryTimeout' = 0
    /\ retryOptions' = NoRetryOptions
    /\ cbCount' = 0
    /\ cbErr' = NoError
    /\ cbResponse' = NoResponse
    /\ busCount' = 0
    /\ busLast' = [err |-> NoError, response |-> NoResponse]
    /\ asyncRequestTimer' = IF asyncRequestTimer.set THEN asyncRequestTimer
                            ELSE [set |-> TRUE, at |-> at]
    /\ jwtRequests' = jwtRequests + 1
    /\ jwtIds' = jwtIds \cup {jti}
    /\ startedAt' = at
    /\ jwtTimer' = at
    /\ UNCHANGED config

\* getTokensJWTGrant(type, id, options); start: whether the key ID is set and
\* jwt.sign accepts the key
GetTokensJWTGrant(start) ==
    /\ jwtPc = "idle"
    /\ IF start = "ok"
       THEN /\ jwtPc' = "sending"
            /\ jwtClaims' = [exp |-> now \div 1000 + appAuthDefaults.expirationTime,
                             jti |-> uuidv4(jwtIds)]
            /\ JWTGetTokens(uuidv4(jwtIds), now)
            /\ UNCHANGED jwtThrown
       ELSE /\ jwtPc' = "rejected"
            /\ jwtThrown' = IF start = "noKeyID" THEN JWTConfigError ELSE JWTSignError
            /\ UNCHANGED <<execVars, jwtClaims, jwtRequests, jwtIds, jwtTimer>>
    /\ UNCHANGED <<jwtNumRetries, jwtError, jwtDelay>>
    /\ UNCHANGED <<now, tokenVars, sessionVars, configVars>>

GetsTokensJWTGrant == \E start \in {"ok", "noKeyID", "signFails"} : GetTokensJWTGrant(start)

\* the request settled: the then() handler of getTokens runs on a response, and
\* the catch() handler runs retryJWTGrant on the error of either.
\* date, body, description: what the response carries besides its status
JWTGetTokensSettles(date, body, description, strat, backoff) ==
    /\ jwtPc = "sending"
    /\ pc = "done"
    /\ LET result == getTokensThen(grantTypes.JWT,
                                   [statusCode |-> cbResponse.statusCode,
                                    isBuffer |-> FALSE, body |-> body], now)
           err == IF cbErr.present THEN requestError(cbErr, response, date)
                  ELSE buildError(result.kind, cbResponse, date, description)
           r == retryJWTGrant(err, jwtNumRetries, config, strat, backoff, now)
       IN  IF ~cbErr.present /\ result.kind = "tokenInfo"
           THEN /\ jwtPc' = "resolved"
                /\ UNCHANGED <<jwtNumRetries, jwtClaims, jwtError, jwtThrown, jwtDelay>>
           ELSE /\ jwtNumRetries' = r.numRetries
                /\ jwtError' = err
                /\ IF r.next = "delay"
                   THEN /\ jwtPc' = "waiting"
                        /\ jwtClaims' = [exp |-> r.exp, jti |-> uuidv4(jwtIds)]
                        /\ jwtDelay' = r.delay
                        /\ UNCHANGED jwtThrown
                   ELSE /\ jwtPc' = "rejected"
                        /\ jwtThrown' = r.error
                        /\ UNCHANGED <<jwtClaims, jwtDelay>>
    /\ UNCHANGED <<jwtRequests, jwtIds, jwtTimer>>
    /\ UNCHANGED <<execVars, now, tokenVars, sessionVars, configVars>>

JWTSettles ==
    \E date \in IF cbErr.present /\ ~cbErr.hasResponse THEN {NoDate} ELSE DateHeaders :
      \E body \in IF cbErr.present THEN {EmptyBody} ELSE JWTBodies :
       \E description \in IF body.error = Str("invalid_grant") THEN Descriptions
                           ELSE {NoDescription} :
        \E strat \in IF config.retryStrategy THEN StrategyResults ELSE {NoStrategyResult} :
            \E backoff \in IF config.retryStrategy THEN {0}
                            ELSE getRetryTimeout(jwtNumRetries + 1, config.retryIntervalMS) :
                JWTGetTokensSettles(date, body, description, strat, backoff)

\* Promise.delay(retryTimeoutinSeconds) elapsed: the timer is restarted and
\* getTokens posts the re-signed assertion; the failed attempt's error and the
\* delay are gone with the retryJWTGrant call that held them
JWTDelayElapses ==
    /\ jwtPc = "waiting"
    /\ now' = now + ToNumber(jwtDelay.timeout)
    /\ jwtPc' = "sending"
    /\ JWTGetTokens(jwtClaims.jti, now')
    /\ jwtError' = NoJWTError
    /\ jwtDelay' = NoJWTDelay
    /\ UNCHANGED <<jwtNumRetries, jwtClaims, jwtThrown>>
    /\ UNCHANGED <<tokenVars, sessionVars, configVars>>

InitJWT ==
    /\ \E cfg \in JWTConfigs : Constructed(cfg)
    /\ now \in JWTStartTimes
    /\ JWTIdle
    /\ ConfigIdle
    /\ TokenIdle
    /\ SessionIdle

NextJWT ==
    \/ GetsTokensJWTGrant
    \/ RequestCompletes
    \/ FinishTick
    \/ JWTSettles
    \/ JWTDelayElapses

SpecJWT == InitJWT /\ [][NextJWT]_vars

\* every request is answered, every callback and timer runs
FairSpecJWT ==
    /\ SpecJWT
    /\ WF_vars(RequestCompletes)
    /\ WF_vars(FinishTick)
    /\ WF_vars(JWTSettles)
    /\ WF_vars(JWTDelayElapses)

JWTSettled == jwtPc \in {"resolved", "rejected"}

\* C22: the executor never retries a JWT grant request; one getTokensJWTGrant
\* call issues at most numMaxRetries + 1 requests, one per retry of
\* retryJWTGrant plus the first, and settles
C22_JWTRetriedOnlyByTokenManager ==
    /\ [](isJWT(config) => (numRetries = 0 /\ attempts <= 1 /\ pc # "waiting"))
    /\ [](jwtRequests <= config.numMaxRetries + 1 /\ jwtRequests <= jwtNumRetries + 1)
    /\ (jwtPc = "sending" ~> JWTSettled)

C22_Witness ==
    /\ jwtPc = "rejected"
    /\ config.numMaxRetries > 0
    /\ jwtRequests = config.numMaxRetries + 1
    /\ jwtThrown.maxRetriesExceeded

-----------------------------------------------------------------------------
(* Claims about the event bus and the retry counters of the executor *)

\* the callback of a buffered request has run
Delivered == callback /\ pc = "done"

\* the same Error object: _retry sets maxRetriesExceeded on the error after
\* _handleResponse emitted it
SameError(a, b) == [a EXCEPT !.maxRetriesExceeded = FALSE] = [b EXCEPT !.maxRetriesExceeded = FALSE]

\* each _handleResponse call emits one event, the callback's tick none
C23_EmittedOncePerOutcome ==
    /\ HandlesResponse => busCount' = busCount + 1
    /\ (pc = "finishing" /\ pc' = "done") => busCount' = busCount

\* C23 as stated: the terminal outcome is emitted once, and what was emitted
\* for it is what the callback receives
C23_Original ==
    /\ [][C23_EmittedOncePerOutcome]_vars
    /\ [](Delivered => (SameError(busLast.err, cbErr) /\ busLast.response = cbResponse))

\* C23: the terminal outcome is emitted once, and what was emitted for it is
\* what the callback receives, unless a retry strategy returned an Error: then
\* the callback receives that Error and the event carried the request's error
C23_EmittedOutcomeDelivered ==
    /\ [][C23_EmittedOncePerOutcome]_vars
    /\ [](Delivered =>
            /\ busCount = attempts
            /\ busLast.response = cbResponse
            /\ IF retryOptions.called /\ retryOptions.returned.type = "error"
               THEN cbErr = StrategyError /\ busLast.err.kind \in {"response", "transport"}
               ELSE SameError(busLast.err, cbErr))

C23_Witness ==
    /\ Delivered
    /\ cbErr.present
    /\ cbErr.maxRetriesExceeded
    /\ attempts = 2
    /\ busCount = 2


\* _retry calls the retry strategy in this step
StrategyCalled == HandlesResponse /\ config.retryStrategy /\ numRetries' = numRetries + 1

\* C27: the totalElapsedTimeMS handed to the retry strategy is the time since
\* this request's first execute(), whatever other requests the process ran
C27_Original ==
    [][StrategyCalled => retryOptions'.totalElapsedTimeMS = now - startedAt]_vars


\* C28: numRetries stays within 0..numMaxRetries and never decreases, and the
\* request is issued at most numMaxRetries + 1 times
C28_RetriesBounded ==
    /\ [](/\ 0 <= numRetries
          /\ numRetries <= config.numMaxRetries
          /\ attempts <= config.numMaxRetries + 1)
    /\ [][numRetries' >= numRetries]_vars

C28_Witness ==
    /\ config.numMaxRetries > 1
    /\ numRetries = config.numMaxRetries
    /\ attempts = config.numMaxRetries + 1
    /\ pc = "done"


-----------------------------------------------------------------------------
(* The refresh in flight of a session *)

\* C29: a session has at most one refresh grant call in flight, the one its
\* marker names; a getAccessToken call made while it is in flight starts no
\* other, and a caller that must block (the token expired) waits on it, whether
\* it was started in the background for a stale token or by a blocked caller
C29_OneRefreshInFlight ==
    /\ [](Cardinality(sInFlight) <= 1)
    /\ [](sInFlight # {} => sInFlight = {sRefreshPromise})
    /\ [][\A c \in Callers :
              (C2_Calls(c) /\ sInFlight # {})
                  => /\ sGrantCalls' = sGrantCalls
                     /\ sInFlight' = sInFlight
                     /\ tokenExpired(sTokenInfo, sConfig, now)
                           => (sCaller'[c] = "waiting" /\ sCallerGrant'[c] = sRefreshPromise)]_vars

\* caller 1 was served the stale token and started the background refresh;
\* the token expired and caller 2 is blocked on that same refresh
C29_Witness ==
    /\ sCaller[1] = "resolved" /\ sCallerGrant[1] = 0
    /\ sCaller[2] = "waiting" /\ sCallerGrant[2] = sRefreshPromise
    /\ sInFlight = {sRefreshPromise}
    /\ sGrantCalls = 2
    /\ tokenExpired(sTokenInfo, sConfig, now)
    /\ sTokenInfo # NoTokenInfo

-----------------------------------------------------------------------------
(* Claims about the retries of the JWT grant *)

\* retryJWTGrant has run on an error of getTokens
RetryJWTGrantRan == jwtError.present /\ jwtPc \in {"waiting", "rejected"}

\* the condition the error is to be classified by
C24_Retryable(err) ==
    \/ err.authExpired /\ err.date.present /\ (err.description.exp \/ err.description.jti)
    \/ err.hasResponse /\ (err.statusCode = 429 \/ err.statusCode >= 500)

\* C24: isJWTAuthErrorRetryable is true exactly for the auth-expired errors
\* with a date header and 'exp' or 'jti' in the description and for statuses
\* 429 and >= 500, false for every other error, and retryJWTGrant attempts
\* nothing further for an error classified as not retryable
C24_Original ==
    RetryJWTGrantRan =>
        /\ isJWTAuthErrorRetryable(jwtError) = IF C24_Retryable(jwtError) THEN "true" ELSE "false"
        /\ jwtPc = "waiting" => C24_Retryable(jwtError)

\* retryJWTGrant has re-signed the assertion and waits to send it
Resigned == jwtPc = "waiting"

\* the instant the new expiry is to be counted from, in whole seconds
C25_Time == IF jwtError.date.present THEN jwtError.date.sec ELSE jwtDelay.at \div 1000

\* C25: on every JWT retry claims.exp is the server time of the failed
\* response's date header (the local clock without one) + expirationTime + the
\* chosen delay in seconds, and the JWT ID is none of the earlier attempts'
C25_Original ==
    Resigned =>
        /\ jwtClaims.exp = C25_Time + appAuthDefaults.expirationTime + ToNumber(jwtDelay.timeout)
        /\ jwtClaims.jti \notin jwtIds

\* the grant rejected with an error of getTokens handled by retryJWTGrant
JWTGrantFailed == jwtPc = "rejected" /\ jwtError.present

\* numMaxRetries retries were performed before the error arrived
BudgetExhausted == jwtRequests = config.numMaxRetries + 1

\* C26: a JWT grant that fails with its retry budget exhausted rejects with
\* the last error, marked maxRetriesExceeded; an error propagated while budget
\* remained carries no such mark
C26_MaxRetriesExceededMarked ==
    JWTGrantFailed =>
        IF BudgetExhausted
        THEN jwtThrown = [jwtError EXCEPT !.maxRetriesExceeded = TRUE]
        ELSE ~jwtThrown.maxRetriesExceeded

C26_Witness ==
    /\ JWTGrantFailed
    /\ BudgetExhausted
    /\ jwtRequests > 2
    /\ jwtThrown.maxRetriesExceeded
    /\ jwtThrown.statusCode = 429

\* the seconds by which the re-signed assertion's expiry exceeds time + expirationTime
C30_AddedSeconds == jwtClaims.exp - jwtDelay.time - appAuthDefaults.expirationTime

\* Promise.delay has elapsed and the next attempt starts in this step
RetryStarts == jwtPc = "waiting" /\ jwtPc' = "sending"

\* C30: the next attempt starts d * 1000 ms after the retry was decided, d
\* being the seconds added to claims.exp, and a retry-strategy result of n ms
\* adds n / 1000 seconds to claims.exp
C30_Original ==
    [][RetryStarts =>
          /\ now' - now = C30_AddedSeconds * 1000
          /\ jwtDelay.source = "strategy" => C30_AddedSeconds * 1000 = jwtDelay.timeout.n]_vars

====
